---- MODULE Spec2Model ----
(***************************************************************************)
(* The incident-report pipeline: the Ingestor (POST /ingest), the          *)
(* Processor (POST /, push delivery from raw-user-reports) and the Writer  *)
(* (POST /, push delivery from processed-events), with the two document    *)
(* collections and the two topics they act on.                             *)
(***************************************************************************)
EXTENDS Integers, Sequences, FiniteSets, TLC

\* ------------------------------------------------------------------ bounds
\* Client submissions to POST /ingest.
MaxReports == 2
\* Push requests sent straight to a push endpoint (not by the queue).
MaxPushes == 2
\* Failing calls to the document store or the queue, over a whole run.
MaxFailures == 1
\* Requests one service handles at the same time.
Concurrency == 2
\* Longest description the summary derivation is tried on.
MaxDescLen == 102

\* --------------------------------------------------------------- JS values
Undef == [t |-> "undefined"]
Null == [t |-> "null"]
Str(s) == [t |-> "string", v |-> s]
Num(n) == [t |-> "number", v |-> n]
Obj(f) == [t |-> "object", v |-> f]
\* A string holding the base64 encoding of a text.
B64(text) == [t |-> "base64", v |-> text]
\* admin.firestore.FieldValue.serverTimestamp(): the transform sentinel.
ServerTimestamp == [t |-> "serverTimestamp"]
\* The empty function: an object with no keys, a string with no characters.
Empty == <<>>

\* JavaScript truthiness of a value.
Truthy(x) ==
    /\ x.t \notin {"undefined", "null"}
    /\ ~(x.t = "string" /\ x.v = Empty)
    /\ ~(x.t = "number" /\ x.v = 0)

\* a || b
Or(a, b) == IF Truthy(a) THEN a ELSE b

\* x.k throws a TypeError when x is undefined or null.
GetThrows(x) == x.t \in {"undefined", "null"}

\* x.k for a value x that is neither undefined nor null.
Get(x, k) ==
    IF x.t = "object" /\ k \in DOMAIN x.v THEN x.v[k] ELSE Undef

\* The own enumerable keys { ...x } copies (none for null or a number).
Fields(x) == IF x.t = "object" THEN x.v ELSE Empty

\* typeof x === 'number'
IsNumber(x) == x.t = "number"

\* JSON.stringify followed by JSON.parse of a value: a key holding undefined
\* is dropped and a class instance (the timestamp sentinel, a GeoPoint)
\* becomes a plain object of its own enumerable fields.
RECURSIVE Jsonify(_)
Jsonify(x) ==
    CASE x.t = "object" ->
           Obj([k \in {j \in DOMAIN x.v : x.v[j].t # "undefined"} |-> Jsonify(x.v[k])])
      [] x.t = "serverTimestamp" -> Obj(Empty)
      [] x.t = "geopoint" ->
           Obj([latitude |-> Num(x.latitude), longitude |-> Num(x.longitude)])
      [] OTHER -> x

\* Buffer.from(JSON.stringify(v)): the bytes of a JSON text.
JSONStringify(v) == [kind |-> "json", val |-> Jsonify(v)]
\* Bytes that are no JSON text.
Garbage == [kind |-> "garbage"]

\* Buffer.from(data, 'base64') throws a TypeError for a number.
BufferFromThrows(data) == data.t = "number"
\* Buffer.from(data, 'base64').toString('utf8'): invalid base64 characters
\* are skipped, so a string that encodes no JSON text decodes to garbage.
BufferFrom(data) == IF data.t = "base64" THEN data.v ELSE Garbage

\* JSON.parse(text) throws a SyntaxError unless text is a JSON text.
JSONParseThrows(text) == text.kind # "json"
JSONParse(text) == text.val

\* The push envelope the queue builds around a message's bytes.
Envelope(bytes) == Obj([message |-> Obj([data |-> B64(bytes)])])

\* --------------------------------------------------------------- characters
\* The string literals of the three handlers, as sequences of characters.
IncidentPrefix ==
    <<"I", "n", "c", "i", "d", "e", "n", "t", ":", " ">>
Ellipsis ==
    <<".", ".", ".">>
IncidentReported ==
    <<"I", "n", "c", "i", "d", "e", "n", "t", " ", "r", "e", "p",
      "o", "r", "t", "e", "d", ".">>
Processed ==
    <<"p", "r", "o", "c", "e", "s", "s", "e", "d">>
RawIngested ==
    <<"r", "a", "w", "_", "i", "n", "g", "e", "s", "t", "e", "d">>
GeneralIncident ==
    <<"g", "e", "n", "e", "r", "a", "l", "_", "i", "n", "c", "i",
      "d", "e", "n", "t">>
Unknown ==
    <<"u", "n", "k", "n", "o", "w", "n">>
NotApplicable ==
    <<"N", "/", "A">>
AgentResponsible ==
    <<"U", "s", "e", "r", " ", "R", "e", "p", "o", "r", "t", " ",
      "P", "r", "o", "c", "e", "s", "s", "i", "n", "g", " ", "(",
      "C", "l", "o", "u", "d", " ", "R", "u", "n", " ", "P", "l",
      "a", "c", "e", "h", "o", "l", "d", "e", "r", ")">>

\* Strings of the requests the handlers are tried on.
Flood ==
    <<"F", "l", "o", "o", "d", " ", "o", "n", " ", "5", "t", "h",
      " ", "A", "v", "e">>
User1 ==
    <<"u", "s", "e", "r", "1">>
MainSt ==
    <<"M", "a", "i", "n", " ", "S", "t">>

\* ----------------------------------------------------- Processor: summary
\* The number of description characters the summary keeps.
SummaryChars == 100

Min(a, b) == IF a < b THEN a ELSE b

\* s.substring(0, n) for 0 <= n <= s.length
Substring(s, n) == SubSeq(s, 1, n)

\* description.substring is no function unless description is a string.
SummaryThrows(description) == Truthy(description) /\ description.t # "string"

\* Faulty variant: the summary keeps the whole description.
SummaryUncut(description) ==
    IF Truthy(description)
    THEN Str(IncidentPrefix \o description.v \o Ellipsis)
    ELSE Str(IncidentReported)

\* summary: incidentData.description ? `Incident: ${...substring(0, min(length, 100))}...`
\*                                   : 'Incident reported.'
Summary(description) ==
    IF Truthy(description)
    THEN Str(IncidentPrefix
             \o Substring(description.v, Min(Len(description.v), SummaryChars))
             \o Ellipsis)
    ELSE Str(IncidentReported)

\* ------------------------------------------------ Processor: transformation
DefaultImpact ==
    Obj([duration |-> Str(Unknown),
         affectedCommuters |-> Num(0),
         spreadDirection |-> Str(NotApplicable)])

\* Building processedIncident throws when incidentData is null (reading
\* incidentData.type) or when description is truthy and no string.
ProcessorThrows(incidentData) ==
    \/ GetThrows(incidentData)
    \/ SummaryThrows(Get(incidentData, "description"))

processedIncident(incidentData) ==
    Obj([status |-> Str(Processed),
         processedTimestamp |-> ServerTimestamp,
         eventType |-> Or(Get(incidentData, "type"), Str(GeneralIncident)),
         summary |-> Summary(Get(incidentData, "description")),
         predictedImpact |-> Or(Get(incidentData, "predictedImpact"), DefaultImpact),
         agentResponsible |-> Str(AgentResponsible)]
        @@ Fields(incidentData))

\* --------------------------------------------------- Writer: transformation
\* new admin.firestore.GeoPoint(latitude, longitude) validates its arguments.
GeoPointThrows(latitude, longitude) ==
    \/ latitude \notin (-90)..90
    \/ longitude \notin (-180)..180

GeoPoint(latitude, longitude) ==
    [t |-> "geopoint", latitude |-> latitude, longitude |-> longitude]

\* location && typeof location.latitude === 'number'
\*          && typeof location.longitude === 'number'
HasCoordinates(location) ==
    /\ Truthy(location)
    /\ IsNumber(Get(location, "latitude"))
    /\ IsNumber(Get(location, "longitude"))

\* Preparing dataToSave throws when eventData is null (the destructuring)
\* or when the GeoPoint constructor rejects the coordinates.
WriterThrows(eventData) ==
    \/ GetThrows(eventData)
    \/ /\ HasCoordinates(Get(eventData, "location"))
       /\ GeoPointThrows(Get(Get(eventData, "location"), "latitude").v,
                         Get(Get(eventData, "location"), "longitude").v)

firestoreLocation(location) ==
    IF HasCoordinates(location)
    THEN GeoPoint(Get(location, "latitude").v, Get(location, "longitude").v)
    ELSE Null

restOfData(eventData) ==
    [k \in DOMAIN Fields(eventData) \ {"location"} |-> Fields(eventData)[k]]

dataToSave(eventData) ==
    Obj([location |-> Or(firestoreLocation(Get(eventData, "location")),
                         Or(Get(eventData, "location"), Null)),
         firestoreCreatedAt |-> ServerTimestamp]
        @@ restOfData(eventData))

\* ------------------------------------------------- Ingestor: transformation
\* Faulty variant: reportedBy is not validated.
IngestValidNoReporter(incidentData) ==
    /\ Truthy(incidentData)
    /\ Truthy(Get(incidentData, "description"))
    /\ Truthy(Get(incidentData, "location"))

\* The negation of the validation test of POST /ingest.
IngestValid(incidentData) ==
    /\ Truthy(incidentData)
    /\ Truthy(Get(incidentData, "description"))
    /\ Truthy(Get(incidentData, "location"))
    /\ Truthy(Get(incidentData, "reportedBy"))

\* incidentData after ingestedAt and status are assigned.
Stamped(incidentData) ==
    Obj([ingestedAt |-> ServerTimestamp, status |-> Str(RawIngested)]
        @@ incidentData.v)

Digits == <<"0", "1", "2", "3", "4", "5", "6", "7", "8", "9">>
\* The identifier the store gives the k-th document request n adds: unique,
\* and otherwise of the store's choosing.
DocId(n, k) == Str(<<"d", Digits[n + 1], Digits[k + 1]>>)

dataToPublish(incidentData, firestoreDocId) ==
    Obj([firestoreDocId |-> firestoreDocId] @@ incidentData.v)

\* ------------------------------------------------------- push envelope
\* !req.body || !req.body.message || !req.body.message.data
EnvelopeInvalid(body) ==
    \/ ~Truthy(body)
    \/ ~Truthy(Get(body, "message"))
    \/ ~Truthy(Get(Get(body, "message"), "data"))

MessageData(body) == Get(Get(body, "message"), "data")

\* The try block around Buffer.from and JSON.parse catches.
DecodeThrows(data) ==
    \/ BufferFromThrows(data)
    \/ JSONParseThrows(BufferFrom(data))

Decode(data) == JSONParse(BufferFrom(data))

\* A push request the handler answers 400.
Rejected(body) == EnvelopeInvalid(body) \/ DecodeThrows(MessageData(body))

\* ------------------------------------------------------------------- inputs
GeoInRange == Obj([latitude |-> Num(40), longitude |-> Num(-74)])
GeoOutOfRange == Obj([latitude |-> Num(100), longitude |-> Num(0)])

\* A request body as express.json() parses it: a field drawn as undefined
\* is a field the body lacks.
Body(d, l, r) == Jsonify(Obj([description |-> d, location |-> l, reportedBy |-> r]))

FalsyValues == {Undef, Null, Str(Empty), Num(0)}
AbsentOrEmpty == {Undef, Str(Empty)}

\* Bodies with the three fields truthy: a report the pipeline carries to the
\* events store, one whose coordinates no geospatial point accepts, and one
\* whose description is a number and whose location is an empty object.
AcceptableBodies ==
    {Body(Str(Flood), GeoInRange, Str(User1)),
     Body(Str(Flood), GeoOutOfRange, Str(User1)),
     Body(Num(5), Obj(Empty), Str(User1))}

\* No parsed body, an empty body, and bodies with one field falsy.
DeficientBodies ==
    {Undef, Obj(Empty)}
    \cup {Body(f, GeoInRange, Str(User1)) : f \in FalsyValues}
    \cup {Body(Str(Flood), f, Str(User1)) : f \in AbsentOrEmpty}
    \cup {Body(Str(Flood), GeoInRange, f) : f \in AbsentOrEmpty}

\* The bodies POST /ingest is tried on.
IngestBodies == AcceptableBodies \cup DeficientBodies

WithData(data) == Obj([message |-> Obj([data |-> data])])

\* Push bodies no queue message produces.
MalformedPushes ==
    {Undef, Obj(Empty), Obj([message |-> Obj(Empty)]),
     WithData(Str(Empty)), WithData(Num(7)), WithData(Str(MainSt)),
     WithData(B64(Garbage))}

\* Payloads that parse, pushed straight to a push endpoint.
PushedPayloads ==
    {Null, Num(5), Obj(Empty),
     Obj([description |-> Num(5)]),
     Obj([description |-> Str(Flood), location |-> GeoInRange]),
     Obj([location |-> GeoOutOfRange]),
     Obj([location |-> Str(MainSt)])}

PushBodies == MalformedPushes \cup {Envelope(JSONStringify(v)) : v \in PushedPayloads}

\* Descriptions of every length up to MaxDescLen, in two spellings.
Text(n, p) == [i \in 1..n |-> IF (i + p) % 3 = 0 THEN "a" ELSE "b"]
SummaryInputs ==
    {Undef, Null, Num(5)} \cup {Str(Text(n, p)) : n \in 0..MaxDescLen, p \in 1..2}

\* -------------------------------------------------------------------- state
VARIABLES
    rawReports,      \* the 'rawReports' collection: [id, by, data]
    events,          \* the 'events' collection: [id, by, data]
    topicRaw,        \* messages published to raw-user-reports: [id, by, data]
    topicProcessed,  \* messages published to processed-events: [id, by, data]
    subRaw,          \* ids of raw-user-reports messages not yet acknowledged
    subProcessed,    \* ids of processed-events messages not yet acknowledged
    ingestor,        \* the Ingestor's requests in progress, by slot
    processor,       \* the Processor's requests in progress, by slot
    writer,          \* the Writer's requests in progress, by slot
    responses,       \* the requests that ended, each with its response
    n200,            \* the 200 responses each push service has sent
    nReports,        \* client submissions so far
    nPushes,         \* direct push requests so far
    failures,        \* failed store and queue calls so far
    sumIn,           \* a description handed to the summary derivation
    sumOut           \* the summary derived from it

vars ==
    <<rawReports, events, topicRaw, topicProcessed, subRaw, subProcessed,
      ingestor, processor, writer, responses, n200, nReports, nPushes,
      failures, sumIn, sumOut>>

summaryVars == <<sumIn, sumOut>>
pipelineVars ==
    <<rawReports, events, topicRaw, topicProcessed, subRaw, subProcessed,
      ingestor, processor, writer, responses, n200, nReports, nPushes,
      failures>>

Slots == 1..Concurrency
Idle == [pc |-> "idle"]
NotComputed == [t |-> "not computed"]
TypeError == [t |-> "TypeError"]

\* The platform hands a request to the first free slot.
FirstIdle(h, s) == h[s] = Idle /\ \A q \in Slots : q < s => h[q] # Idle

\* Whether some slot of h is handling request req.
InFlight(h, req) == \E s \in Slots : h[s] # Idle /\ h[s].req = req

Init ==
    /\ rawReports = {}
    /\ events = {}
    /\ topicRaw = {}
    /\ topicProcessed = {}
    /\ subRaw = {}
    /\ subProcessed = {}
    /\ ingestor = [s \in Slots |-> Idle]
    /\ processor = [s \in Slots |-> Idle]
    /\ writer = [s \in Slots |-> Idle]
    /\ responses = {}
    /\ n200 = [processor |-> 0, writer |-> 0]
    /\ nReports = 0
    /\ nPushes = 0
    /\ failures = 0
    /\ sumIn = Undef
    /\ sumOut = NotComputed

\* ----------------------------------------------------------------- Ingestor
\* Faulty variant: the raw report is written twice.
AddRawTwice(rid, data) ==
    rawReports' = rawReports \cup
        {[id |-> DocId(rid, k), by |-> rid, data |-> data] : k \in 1..2}

\* await db.collection('rawReports').add(incidentData): a new document under
\* an identifier no other has.
AddRaw(rid, data) ==
    rawReports' = rawReports \cup {[id |-> DocId(rid, 1), by |-> rid, data |-> data]}

\* A request of POST /ingest: failed names the call that rejected.
IngestRequest(rid, body, pc, status, failed, firestoreDocId) ==
    [svc |-> "ingestor", pc |-> pc, rid |-> rid, body |-> body,
     status |-> status, failed |-> failed, firestoreDocId |-> firestoreDocId]

\* POST /ingest up to its first await: the validation answers 400, or the
\* two assignments are made and the store write starts.
IngestReceive(s, body) ==
    /\ nReports < MaxReports
    /\ FirstIdle(ingestor, s)
    /\ nReports' = nReports + 1
    /\ IF ~IngestValid(body)
       THEN /\ responses' = responses \cup
                  {IngestRequest(nReports + 1, body, "done", 400, "none", Undef)}
            /\ UNCHANGED ingestor
       ELSE /\ ingestor' = [ingestor EXCEPT ![s] =
                  IngestRequest(nReports + 1, body, "store", 0, "none", Undef)]
            /\ UNCHANGED responses
    /\ UNCHANGED <<rawReports, events, topicRaw, topicProcessed, subRaw,
                   subProcessed, processor, writer, n200, nPushes, failures, summaryVars>>

\* The store write resolves: the handler goes on to publish.
IngestStoreOk(s) ==
    /\ ingestor[s].pc = "store"
    /\ AddRaw(ingestor[s].rid, Stamped(ingestor[s].body))
    /\ ingestor' = [ingestor EXCEPT ![s].pc = "publish",
                       ![s].firestoreDocId =
                           (CHOOSE d \in rawReports' \ rawReports : TRUE).id]
    /\ UNCHANGED <<events, topicRaw, topicProcessed, subRaw, subProcessed,
                   processor, writer, responses, n200, nReports, nPushes,
                   failures, summaryVars>>

\* The store write rejects: the catch block answers 500.
IngestStoreFail(s) ==
    /\ ingestor[s].pc = "store"
    /\ failures < MaxFailures
    /\ failures' = failures + 1
    /\ responses' = responses \cup
          {[ingestor[s] EXCEPT !.pc = "done", !.status = 500, !.failed = "store"]}
    /\ ingestor' = [ingestor EXCEPT ![s] = Idle]
    /\ UNCHANGED <<rawReports, events, topicRaw, topicProcessed, subRaw,
                   subProcessed, processor, writer, n200, nReports, nPushes, summaryVars>>

\* publishMessage resolves: the message is on the topic and the handler
\* answers 200.
IngestPublishOk(s) ==
    /\ ingestor[s].pc = "publish"
    /\ LET id == ingestor[s].rid
       IN /\ topicRaw' = topicRaw \cup
                {[id |-> id, by |-> ingestor[s].rid,
                  data |-> JSONStringify(dataToPublish(Stamped(ingestor[s].body),
                                                       ingestor[s].firestoreDocId))]}
          /\ subRaw' = subRaw \cup {id}
    /\ responses' = responses \cup
          {[ingestor[s] EXCEPT !.pc = "done", !.status = 200]}
    /\ ingestor' = [ingestor EXCEPT ![s] = Idle]
    /\ UNCHANGED <<rawReports, events, topicProcessed, subProcessed, processor,
                   writer, n200, nReports, nPushes, failures, summaryVars>>

\* Faulty variant: a failed publish deletes the raw report again.
PublishFailedRollback(s) ==
    rawReports' = {d \in rawReports : d.by # ingestor[s].rid}

\* What the catch block does to the raw report after a failed publish.
PublishFailed(s) == UNCHANGED rawReports

\* publishMessage rejects: the catch block answers 500.
IngestPublishFail(s) ==
    /\ ingestor[s].pc = "publish"
    /\ failures < MaxFailures
    /\ failures' = failures + 1
    /\ PublishFailed(s)
    /\ responses' = responses \cup
          {[ingestor[s] EXCEPT !.pc = "done", !.status = 500, !.failed = "publish"]}
    /\ ingestor' = [ingestor EXCEPT ![s] = Idle]
    /\ UNCHANGED <<events, topicRaw, topicProcessed, subRaw, subProcessed,
                   processor, writer, n200, nReports, nPushes, summaryVars>>

\* ------------------------------------------------- the two push handlers
\* A request the queue makes for message id, and one a client makes itself.
Delivery(id) == [msg |-> id]
Direct(n) == [push |-> n]

\* An exception thrown between decoding and the try block rejects the async
\* handler's promise: either nothing ever answers the request ("crashed"),
\* or the framework's error handler answers 500.
ThrowOutcomes == {"crashed", "done"}

Thrown(svc, req, body, outcome) ==
    [svc |-> svc, pc |-> outcome, req |-> req, body |-> body, out |-> Undef,
     status |-> IF outcome = "done" THEN 500 ELSE 0,
     calls |-> 0, callOk |-> FALSE, thrown |-> TRUE]

Answered400(svc, req, body) ==
    [svc |-> svc, pc |-> "done", req |-> req, body |-> body, out |-> Undef,
     status |-> 400, calls |-> 0, callOk |-> FALSE, thrown |-> FALSE]

Calling(svc, req, body, out) ==
    [svc |-> svc, pc |-> "call", req |-> req, body |-> body, out |-> out,
     status |-> 0, calls |-> 0, callOk |-> FALSE, thrown |-> FALSE]

\* The downstream call resolved, and the 200 that follows it.
Answered200(request) ==
    [request EXCEPT !.pc = "done", !.status = 200, !.calls = 1, !.callOk = TRUE]

\* The downstream call rejected, and the 500 of the catch block.
Answered500(request) ==
    [request EXCEPT !.pc = "done", !.status = 500, !.calls = 1]

\* ---------------------------------------------------------------- Processor
\* Faulty variant: the decode step has no catch, so a payload that does
\* not parse reaches the transformation as an empty object.
ProcessorStartUnchecked(req, body, outcome) ==
    IF EnvelopeInvalid(body)
    THEN Answered400("processor", req, body)
    ELSE IF DecodeThrows(MessageData(body))
    THEN Calling("processor", req, body, processedIncident(Obj(Empty)))
    ELSE IF ProcessorThrows(Decode(MessageData(body)))
    THEN Thrown("processor", req, body, outcome)
    ELSE Calling("processor", req, body,
                 processedIncident(Decode(MessageData(body))))

\* The Processor's POST / up to its first await.
ProcessorStart(req, body, outcome) ==
    IF Rejected(body)
    THEN Answered400("processor", req, body)
    ELSE IF ProcessorThrows(Decode(MessageData(body)))
    THEN Thrown("processor", req, body, outcome)
    ELSE Calling("processor", req, body,
                 processedIncident(Decode(MessageData(body))))

\* A request enters the Processor: it is answered at once, or it takes slot s.
ProcessorEnter(s, request) ==
    IF request.pc = "done"
    THEN responses' = responses \cup {request} /\ UNCHANGED processor
    ELSE processor' = [processor EXCEPT ![s] = request] /\ UNCHANGED responses

\* The queue pushes a raw-user-reports message it holds unacknowledged and
\* has no request out for.
ProcessorDeliver(s, m) ==
    /\ m.id \in subRaw
    /\ FirstIdle(processor, s)
    /\ ~InFlight(processor, Delivery(m.id))
    /\ \E outcome \in ThrowOutcomes :
          ProcessorEnter(s, ProcessorStart(Delivery(m.id), Envelope(m.data), outcome))
    /\ UNCHANGED <<rawReports, events, topicRaw, topicProcessed, subRaw,
                   subProcessed, ingestor, writer, n200, nReports, nPushes,
                   failures, summaryVars>>

\* Some client posts a body of its own to the Processor.
ProcessorPush(s, body) ==
    /\ nPushes < MaxPushes
    /\ FirstIdle(processor, s)
    /\ nPushes' = nPushes + 1
    /\ \E outcome \in ThrowOutcomes :
          ProcessorEnter(s, ProcessorStart(Direct(nPushes + 1), body, outcome))
    /\ UNCHANGED <<rawReports, events, topicRaw, topicProcessed, subRaw,
                   subProcessed, ingestor, writer, n200, nReports, failures, summaryVars>>

\* await pubsub.topic(PROCESSED_EVENTS_TOPIC).publishMessage({ data: dataBuffer })
PublishProcessed(req, out) ==
    LET id == <<req, Cardinality({m \in topicProcessed : m.by = req}) + 1>>
    IN /\ topicProcessed' = topicProcessed \cup
             {[id |-> id, by |-> req, data |-> JSONStringify(out)]}
       /\ subProcessed' = subProcessed \cup {id}

\* The publish resolves: the handler answers 200 and the queue, if the
\* request was its own, acknowledges the message.
ProcessorPublishOk(s) ==
    /\ processor[s].pc = "call"
    /\ PublishProcessed(processor[s].req, processor[s].out)
    /\ responses' = responses \cup {Answered200(processor[s])}
    /\ n200' = [n200 EXCEPT !.processor = @ + 1]
    /\ subRaw' = subRaw \ {id \in subRaw : Delivery(id) = processor[s].req}
    /\ processor' = [processor EXCEPT ![s] = Idle]
    /\ UNCHANGED <<rawReports, events, topicRaw, ingestor, writer, nReports,
                   nPushes, failures, summaryVars>>

\* The publish rejects: the catch block answers 500 and the queue keeps the
\* message for redelivery.
ProcessorPublishFail(s) ==
    /\ processor[s].pc = "call"
    /\ failures < MaxFailures
    /\ failures' = failures + 1
    /\ responses' = responses \cup {Answered500(processor[s])}
    /\ processor' = [processor EXCEPT ![s] = Idle]
    /\ UNCHANGED <<rawReports, events, topicRaw, topicProcessed, subRaw,
                   subProcessed, ingestor, writer, n200, nReports, nPushes, summaryVars>>

\* A request nothing answers ends when the caller gives up; the queue keeps
\* its message for redelivery.
ProcessorTimeout(s) ==
    /\ processor[s].pc = "crashed"
    /\ processor' = [processor EXCEPT ![s] = Idle]
    /\ UNCHANGED <<rawReports, events, topicRaw, topicProcessed, subRaw,
                   subProcessed, ingestor, writer, responses, n200, nReports,
                   nPushes, failures, summaryVars>>

\* ------------------------------------------------------------------- Writer
\* The Writer's POST / up to its first await.
WriterStart(req, body, outcome) ==
    IF Rejected(body)
    THEN Answered400("writer", req, body)
    ELSE IF WriterThrows(Decode(MessageData(body)))
    THEN Thrown("writer", req, body, outcome)
    ELSE Calling("writer", req, body, dataToSave(Decode(MessageData(body))))

\* A request enters the Writer: it is answered at once, or it takes slot s.
WriterEnter(s, request) ==
    IF request.pc = "done"
    THEN responses' = responses \cup {request} /\ UNCHANGED writer
    ELSE writer' = [writer EXCEPT ![s] = request] /\ UNCHANGED responses

\* The queue pushes a processed-events message it holds unacknowledged and
\* has no request out for.
WriterDeliver(s, m) ==
    /\ m.id \in subProcessed
    /\ FirstIdle(writer, s)
    /\ ~InFlight(writer, Delivery(m.id))
    /\ \E outcome \in ThrowOutcomes :
          WriterEnter(s, WriterStart(Delivery(m.id), Envelope(m.data), outcome))
    /\ UNCHANGED <<rawReports, events, topicRaw, topicProcessed, subRaw,
                   subProcessed, ingestor, processor, n200, nReports, nPushes,
                   failures, summaryVars>>

\* Some client posts a body of its own to the Writer.
WriterPush(s, body) ==
    /\ nPushes < MaxPushes
    /\ FirstIdle(writer, s)
    /\ nPushes' = nPushes + 1
    /\ \E outcome \in ThrowOutcomes :
          WriterEnter(s, WriterStart(Direct(nPushes + 1), body, outcome))
    /\ UNCHANGED <<rawReports, events, topicRaw, topicProcessed, subRaw,
                   subProcessed, ingestor, processor, n200, nReports, failures, summaryVars>>

\* Faulty variant: a document equal to a stored one is not written again.
AddEventOnce(req, data) ==
    IF \E d \in events : d.data = data
    THEN UNCHANGED events
    ELSE events' = events \cup
             {[id |-> <<req, Cardinality({d \in events : d.by = req}) + 1>>,
              by |-> req, data |-> data]}

\* await db.collection('events').add(dataToSave)
AddEvent(req, data) ==
    events' = events \cup
        {[id |-> <<req, Cardinality({d \in events : d.by = req}) + 1>>,
              by |-> req, data |-> data]}

\* The write resolves: the handler answers 200 and the queue, if the
\* request was its own, acknowledges the message.
WriterAddOk(s) ==
    /\ writer[s].pc = "call"
    /\ AddEvent(writer[s].req, writer[s].out)
    /\ responses' = responses \cup {Answered200(writer[s])}
    /\ n200' = [n200 EXCEPT !.writer = @ + 1]
    /\ subProcessed' =
          subProcessed \ {id \in subProcessed : Delivery(id) = writer[s].req}
    /\ writer' = [writer EXCEPT ![s] = Idle]
    /\ UNCHANGED <<rawReports, topicRaw, topicProcessed, subRaw, ingestor,
                   processor, nReports, nPushes, failures, summaryVars>>

\* The write rejects: the catch block answers 500 and the queue keeps the
\* message for redelivery.
WriterAddFail(s) ==
    /\ writer[s].pc = "call"
    /\ failures < MaxFailures
    /\ failures' = failures + 1
    /\ responses' = responses \cup {Answered500(writer[s])}
    /\ writer' = [writer EXCEPT ![s] = Idle]
    /\ UNCHANGED <<rawReports, events, topicRaw, topicProcessed, subRaw,
                   subProcessed, ingestor, processor, n200, nReports, nPushes, summaryVars>>

\* A request nothing answers ends when the caller gives up; the queue keeps
\* its message for redelivery.
WriterTimeout(s) ==
    /\ writer[s].pc = "crashed"
    /\ writer' = [writer EXCEPT ![s] = Idle]
    /\ UNCHANGED <<rawReports, events, topicRaw, topicProcessed, subRaw,
                   subProcessed, ingestor, processor, responses, n200,
                   nReports, nPushes, failures, summaryVars>>

\* ------------------------------------------------------------ specification
\* The pipeline: clients submit reports, the queue delivers what is published.
Next ==
    \/ \E s \in Slots, body \in IngestBodies : IngestReceive(s, body)
    \/ \E s \in Slots : IngestStoreOk(s)
    \/ \E s \in Slots : IngestStoreFail(s)
    \/ \E s \in Slots : IngestPublishOk(s)
    \/ \E s \in Slots : IngestPublishFail(s)
    \/ \E s \in Slots, m \in topicRaw : ProcessorDeliver(s, m)
    \/ \E s \in Slots : ProcessorPublishOk(s)
    \/ \E s \in Slots : ProcessorPublishFail(s)
    \/ \E s \in Slots : ProcessorTimeout(s)
    \/ \E s \in Slots, m \in topicProcessed : WriterDeliver(s, m)
    \/ \E s \in Slots : WriterAddOk(s)
    \/ \E s \in Slots : WriterAddFail(s)
    \/ \E s \in Slots : WriterTimeout(s)

Spec == Init /\ [][Next]_vars

\* The two push endpoints alone, called in any order and at the same time
\* with bodies of the caller's choosing: what a queue delivers or delivers
\* again, and what no queue sends.
NextPush ==
    \/ \E s \in Slots, body \in PushBodies : ProcessorPush(s, body)
    \/ \E s \in Slots : ProcessorPublishOk(s)
    \/ \E s \in Slots : ProcessorPublishFail(s)
    \/ \E s \in Slots : ProcessorTimeout(s)
    \/ \E s \in Slots, body \in PushBodies : WriterPush(s, body)
    \/ \E s \in Slots : WriterAddOk(s)
    \/ \E s \in Slots : WriterAddFail(s)
    \/ \E s \in Slots : WriterTimeout(s)

PushSpec == Init /\ [][NextPush]_vars

\* The summary derivation alone, on descriptions of every length.
InitSummary ==
    /\ Init!1 /\ Init!2 /\ Init!3 /\ Init!4 /\ Init!5 /\ Init!6 /\ Init!7
    /\ Init!8 /\ Init!9 /\ Init!10 /\ Init!11 /\ Init!12 /\ Init!13
    /\ Init!14
    /\ sumIn \in SummaryInputs
    /\ sumOut = NotComputed

Summarise ==
    /\ sumOut = NotComputed
    /\ sumOut' = IF SummaryThrows(sumIn) THEN TypeError ELSE Summary(sumIn)
    /\ UNCHANGED <<sumIn, pipelineVars>>

SummarySpec == InitSummary /\ [][Summarise]_vars

\* The pipeline under the scheduling the platform and the queue provide: a
\* call that can resolve does, a request nothing answers times out, and the
\* queue goes on delivering every message it holds unacknowledged.
DeliverRaw(rid) ==
    \E s \in Slots, m \in topicRaw : m.id = rid /\ ProcessorDeliver(s, m)

DeliverProcessed(rid) ==
    \E s \in Slots, m \in topicProcessed :
        m.by = Delivery(rid) /\ WriterDeliver(s, m)

Fairness ==
    /\ \A s \in Slots :
          /\ WF_vars(IngestStoreOk(s))
          /\ WF_vars(IngestPublishOk(s))
          /\ WF_vars(ProcessorPublishOk(s))
          /\ WF_vars(ProcessorTimeout(s))
          /\ WF_vars(WriterAddOk(s))
          /\ WF_vars(WriterTimeout(s))
    /\ \A rid \in 1..MaxReports :
          /\ SF_vars(DeliverRaw(rid))
          /\ SF_vars(DeliverProcessed(rid))

FairSpec == Init /\ [][Next]_vars /\ Fairness

\* ------------------------------------------------------------------- claims
RequiredFields == {"description", "location", "reportedBy"}

\* A body with a required field missing or empty.
MissingOrEmpty(body) ==
    \E k \in RequiredFields : Get(body, k) \in {Undef, Null, Str(Empty)}

\* A body whose three required fields are truthy.
AllTruthy(body) == \A k \in RequiredFields : Truthy(Get(body, k))

IngestResponses == {r \in responses : r.svc = "ingestor"}
PushResponses == {r \in responses : r.svc \in {"processor", "writer"}}
RawBy(rid) == {d \in rawReports : d.by = rid}
QueuedBy(rid) == {m \in topicRaw : m.by = rid}

\* What a push request put downstream.
OutputsBy(req) ==
    {m \in topicProcessed : m.by = req} \cup {d \in events : d.by = req}

\* The push requests in progress, and those that ended or crashed.
PushesInProgress ==
    ({processor[s] : s \in Slots} \cup {writer[s] : s \in Slots}) \ {Idle}
PushesOver ==
    PushResponses \cup {r \in PushesInProgress : r.pc = "crashed"}

\* C1 as stated: every request with non-empty description, location and
\* reportedBy is answered 200 and adds exactly one raw record.
C1_ValidAlways200 ==
    \A r \in IngestResponses :
        AllTruthy(r.body) =>
            r.status = 200 /\ Cardinality(RawBy(r.rid)) = 1

\* C1 amended: a request with truthy description, location and reportedBy
\* whose store write and publish both resolve is answered 200, has added
\* exactly one raw record and has published one message; when the store
\* write rejects it is answered 500 with no raw record added, and when the
\* publish rejects it is answered 500 with one raw record added.
C1_ValidStoredOnce ==
    \A r \in IngestResponses :
        AllTruthy(r.body) =>
            /\ r.failed = "none" =>
                  /\ r.status = 200
                  /\ Cardinality(RawBy(r.rid)) = 1
                  /\ Cardinality(QueuedBy(r.rid)) = 1
            /\ r.failed = "store" =>
                  r.status = 500 /\ RawBy(r.rid) = {}
            /\ r.failed = "publish" =>
                  r.status = 500 /\ Cardinality(RawBy(r.rid)) = 1

C1_Witness ==
    \E r \in IngestResponses :
        /\ AllTruthy(r.body)
        /\ r.status = 200
        /\ Cardinality(RawBy(r.rid)) = 1

C3_UndecodableRejected ==
    /\ \A r \in PushResponses :
          r.body \in MalformedPushes =>
              r.status = 400 /\ r.calls = 0 /\ OutputsBy(r.req) = {}
    /\ \A r \in PushesInProgress : r.body \notin MalformedPushes

C3_Witness ==
    /\ \E r \in PushResponses :
          /\ r.svc = "processor"
          /\ r.body = WithData(B64(Garbage))
          /\ r.status = 400
    /\ \E r \in PushResponses :
          /\ r.svc = "writer"
          /\ r.body = Obj([message |-> Obj(Empty)])
          /\ r.status = 400

\* C4: when the store write resolved and the publish rejected, the request
\* is answered 500, the raw record it wrote is still stored, and no message
\* of the request is on the raw-user-reports topic.
C4_NoRollback ==
    \A r \in IngestResponses :
        r.failed = "publish" =>
            /\ r.status = 500
            /\ \E d \in rawReports : d.by = r.rid /\ d.id = r.firestoreDocId
            /\ QueuedBy(r.rid) = {}

C4_Witness ==
    \E r \in IngestResponses, d \in rawReports :
        /\ r.failed = "publish"
        /\ r.status = 500
        /\ d.by = r.rid
        /\ ~\E m \in topicRaw :
               Get(JSONParse(m.data), "firestoreDocId") = d.id

\* C5 as stated: every push request with a decodable envelope makes exactly
\* one downstream call, is answered 200 exactly when the call resolved and
\* 500 exactly when it rejected.
C5_OneCallPerRequest ==
    \A r \in PushesOver :
        ~Rejected(r.body) =>
            /\ r.calls = 1
            /\ r.status = 200 <=> r.callOk
            /\ r.status = 500 <=> ~r.callOk

\* The location the Writer is to store for a decoded event.
ExpectedLocation(eventData) ==
    LET location == Get(eventData, "location")
    IN IF IsNumber(Get(location, "latitude")) /\ IsNumber(Get(location, "longitude"))
       THEN GeoPoint(Get(location, "latitude").v, Get(location, "longitude").v)
       ELSE IF location = Undef THEN Null ELSE location

\* C7 as stated: for every decodable event delivered to the Writer the
\* handler goes on to the document write without throwing, and the location
\* it writes is the geospatial point of the numeric coordinates, else the
\* original location, else null.
C7_LocationNeverBlocks ==
    \A r \in {q \in PushesInProgress \cup PushResponses : q.svc = "writer"} :
        ~Rejected(r.body) =>
            /\ ~r.thrown
            /\ r.pc = "call" =>
                  Get(r.out, "location") =
                      ExpectedLocation(Decode(MessageData(r.body)))

\* C8: no handler deduplicates: every 200 of the Processor stands for one
\* more message on processed-events and every 200 of the Writer for one
\* more document in events, each under an identifier of its own, also when
\* two requests carry the same message.
C8_NoDeduplication ==
    /\ Cardinality(topicProcessed) = n200.processor
    /\ Cardinality(events) = n200.writer
    /\ \A m1, m2 \in topicProcessed : m1.id = m2.id => m1 = m2
    /\ \A d1, d2 \in events : d1.id = d2.id => d1 = d2
    /\ \A r \in PushResponses : r.status = 200 => OutputsBy(r.req) # {}

C8_Witness ==
    /\ \E d1, d2 \in events : d1.id # d2.id /\ d1.data = d2.data
    /\ \E r1, r2 \in PushResponses :
          /\ r1.svc = "writer" /\ r2.svc = "writer"
          /\ r1.req # r2.req
          /\ r1.body = r2.body
          /\ r1.status = 200 /\ r2.status = 200

\* The report rid was answered 200 by the Ingestor.
Accepted(rid) ==
    \E r \in IngestResponses : r.rid = rid /\ r.status = 200

\* A document of the events store, with status "processed", that stems
\* from report rid.
Persisted(rid) ==
    \E r \in IngestResponses, d \in events :
        /\ r.rid = rid
        /\ Get(d.data, "firestoreDocId") = r.firestoreDocId
        /\ Get(d.data, "status") = Str(Processed)

\* C9 as stated: every report the Ingestor answered 200 eventually has a
\* document with status "processed" in the events store.
C9_AtLeastOnce == \A rid \in 1..MaxReports : Accepted(rid) ~> Persisted(rid)

\* C10 as stated: every push request that passes the envelope and parse
\* checks ends with one response of status 200, 400 or 500, and no step
\* between decoding and the downstream call fails outside the handler's
\* error paths.
C10_AlwaysAnswered ==
    /\ \A r \in PushesInProgress : r.pc # "crashed"
    /\ \A r \in PushResponses : r.status \in {200, 400, 500} /\ ~r.thrown

====
